---- MODULE Spec2Model ----
(***************************************************************************)
(* Wave function collapse engine of pkg/wfc/wave.go as a state machine.    *)
(*                                                                         *)
(* A pointer to a Slot is the slot's index in PossibilitySpace, a pointer  *)
(* to a Module is the module's index in Input.  The recursion             *)
(* of Wave.Recurse is an explicit stack of activation records; the value   *)
(* a returning activation hands to its caller is held in ret.              *)
(***************************************************************************)
EXTENDS Integers, Sequences, FiniteSets, TLC

VARIABLES
    Width,             \* Wave.Width
    Height,            \* Wave.Height
    Input,             \* Wave.Input: the module catalog
    PossibilitySpace,  \* Wave.PossibilitySpace: slot index -> Slot
    History,           \* Wave.History: stack of slot pointers
    pc,                \* where the caller of the Wave is
    attempts,          \* Collapse: its argument
    i,                 \* Collapse: its loop counter
    stack,             \* activations of Recurse, innermost last
    ret,               \* value an activation of Recurse has just returned
    results,           \* values the Collapse calls returned, in order
    drawn,             \* CollapseRandomSlot: the last rand.Intn draw
    probe,             \* result of the last inspection call (GridSpec)
    openAtStart        \* observation: slots with more than one module when
                       \* the running attempt began

vars == <<Width, Height, Input, PossibilitySpace, History, pc, attempts, i,
          stack, ret, results, drawn, probe, openAtStart>>

----------------------------------------------------------------------------
(* Bounds of the model *)

MaxWidth == 2
MaxHeight == 2
MaxModules == 3
NumConstraints == 2
MaxAttempts == 2
MaxCalls == 2
MaxGrid == 3

----------------------------------------------------------------------------
(* Directions, modules, return values *)

Up == "Up"
Down == "Down"
Left == "Left"
Right == "Right"

Directions == <<Up, Down, Left, Right>>

DirSet == {Directions[k] : k \in 1..Len(Directions)}

Opposite(d) ==
    CASE d = Up -> Down
      [] d = Down -> Up
      [] d = Left -> Right
      [] d = Right -> Left

Nil == -1

NoError == "nil"
ErrNoSolution == "no possible modules for slot"
None == "none"

ConstraintIds == 0..(NumConstraints - 1)

(* A module: its Adjacencies array, one constraint id per direction, as the
   constraint function computed it from the tile.  The image is opaque. *)
Modules == [Adjacencies : [DirSet -> ConstraintIds]]

(* The code of a module: its four constraint ids as one number *)
Code(m) ==
    m.Adjacencies[Right] + NumConstraints * (m.Adjacencies[Down]
        + NumConstraints * (m.Adjacencies[Up]
            + NumConstraints * m.Adjacencies[Left]))

(* The catalogs the model draws from: 1..MaxModules modules.  Permuting the
   catalog or renaming the constraint ids of an axis (Left/Right ids are only
   compared with each other, and so are Up/Down ids) gives the same runs up
   to that renaming, so every catalog has a representative here: modules in
   the order of their codes, the first with id 0 on its Left and Up sides. *)
RECURSIVE CatalogsOfSize(_)
CatalogsOfSize(n) ==
    IF n = 1
    THEN {<<m>> : m \in {m \in Modules : /\ m.Adjacencies[Left] = 0
                                          /\ m.Adjacencies[Up] = 0}}
    ELSE UNION {{Append(c, m) :
                    m \in {m \in Modules : Code(c[Len(c)]) <= Code(m)}} :
                c \in CatalogsOfSize(n - 1)}


----------------------------------------------------------------------------
(* Slots and the grid *)

NumSlots == Len(PossibilitySpace)

SlotIds == 1..NumSlots

(* w.PossibilitySpace[k] for the Go index k (0-based) *)
SlotAt(k) == k + 1

Superposition(s) == PossibilitySpace[s].Superposition

Entropy(s) == Len(Superposition(s))

(* A GetSlot that strides rows by the height of the grid *)
GetSlot_ByHeight(x, y) == SlotAt(x + y * Height)

(* GetSlot: w.PossibilitySpace[x+y*w.Width] *)
GetSlot(x, y) == SlotAt(x + y * Width)

(* Initialize: the slot stored at index x+y*Width has X: x, Y: y and a copy
   of the catalog as its superposition *)
Initialize ==
    [k \in 1..(Width * Height) |->
        CHOOSE slot \in {[X |-> x, Y |-> y,
                          Superposition |-> [m \in 1..Len(Input) |-> m]] :
                         x \in 0..(Width - 1), y \in 0..(Height - 1)} :
            SlotAt(slot.X + slot.Y * Width) = k]

(* A HasNeighbor whose Down and Right bounds are off by one *)
HasNeighbor_OffByOne(s, d) ==
    CASE d = Up -> PossibilitySpace[s].Y > 0
      [] d = Down -> PossibilitySpace[s].Y < Height
      [] d = Left -> PossibilitySpace[s].X > 0
      [] d = Right -> PossibilitySpace[s].X < Width
      [] OTHER -> FALSE

HasNeighbor(s, d) ==
    CASE d = Up -> PossibilitySpace[s].Y > 0
      [] d = Down -> PossibilitySpace[s].Y < Height - 1
      [] d = Left -> PossibilitySpace[s].X > 0
      [] d = Right -> PossibilitySpace[s].X < Width - 1
      [] OTHER -> FALSE

GetNeighbor(s, d) ==
    CASE d = Up -> GetSlot(PossibilitySpace[s].X, PossibilitySpace[s].Y - 1)
      [] d = Down -> GetSlot(PossibilitySpace[s].X, PossibilitySpace[s].Y + 1)
      [] d = Left -> GetSlot(PossibilitySpace[s].X - 1, PossibilitySpace[s].Y)
      [] d = Right -> GetSlot(PossibilitySpace[s].X + 1, PossibilitySpace[s].Y)
      [] OTHER -> Nil

(* A visited test that finds no slot on the history *)
HasVisited_Never(s) == FALSE

(* HasVisited: linear scan of the history for the same pointer *)
HasVisited(s) == \E k \in 1..Len(History) : History[k] = s

(* An IsCollapsed that takes a slot of one module for an open one *)
RECURSIVE IsCollapsedFrom_Strict(_)
IsCollapsedFrom_Strict(k) ==
    IF k > NumSlots THEN TRUE
    ELSE IF Entropy(k) >= 1 THEN FALSE
    ELSE IsCollapsedFrom_Strict(k + 1)

(* An IsCollapsed that takes an empty superposition for an open one *)
RECURSIVE IsCollapsedFrom_NotOne(_)
IsCollapsedFrom_NotOne(k) ==
    IF k > NumSlots THEN TRUE
    ELSE IF Entropy(k) # 1 THEN FALSE
    ELSE IsCollapsedFrom_NotOne(k + 1)

(* IsCollapsed: scan the slots, false at the first one with more than one
   module *)
RECURSIVE IsCollapsedFrom(_)
IsCollapsedFrom(k) ==
    IF k > NumSlots THEN TRUE
    ELSE IF Entropy(k) > 1 THEN FALSE
    ELSE IsCollapsedFrom(k + 1)

IsCollapsed == IsCollapsedFrom(1)

(* A count that takes slots of two modules for collapsed ones *)
RECURSIVE NumCollapsedFrom_AtMostTwo(_)
NumCollapsedFrom_AtMostTwo(k) ==
    IF k > NumSlots THEN 0
    ELSE (IF Entropy(k) <= 2 THEN 1 ELSE 0) + NumCollapsedFrom_AtMostTwo(k + 1)

(* CollapseRandomSlot, lines 125-131: count the slots with entropy <= 1 *)
RECURSIVE NumCollapsedFrom(_)
NumCollapsedFrom(k) ==
    IF k > NumSlots THEN 0
    ELSE (IF Entropy(k) <= 1 THEN 1 ELSE 0) + NumCollapsedFrom(k + 1)

NumCollapsed == NumCollapsedFrom(1)

(* The default IsPossibleFn: module m stays possible in slot b, reached from
   slot a in direction d, when some module still possible in a carries on its
   d side the constraint id that m carries on the opposite side *)
IsPossibleFn(m, a, b, d) ==
    \E k \in 1..Entropy(a) :
        Input[Superposition(a)[k]].Adjacencies[d]
            = Input[m].Adjacencies[Opposite(d)]

(* A filter that stops at the first module IsPossibleFn rejects *)
RECURSIVE Filter_StopAtFirstMiss(_, _, _, _)
Filter_StopAtFirstMiss(sup, a, b, d) ==
    IF sup = <<>> THEN <<>>
    ELSE IF IsPossibleFn(Head(sup), a, b, d)
         THEN <<Head(sup)>> \o Filter_StopAtFirstMiss(Tail(sup), a, b, d)
         ELSE <<>>

(* A filter that appends the kept modules in reverse order *)
RECURSIVE Filter_Reversed(_, _, _, _)
Filter_Reversed(sup, a, b, d) ==
    IF sup = <<>> THEN <<>>
    ELSE Filter_Reversed(Tail(sup), a, b, d)
         \o (IF IsPossibleFn(Head(sup), a, b, d) THEN <<Head(sup)>> ELSE <<>>)

(* GetPossibleModules: the modules of b's superposition, in order, that
   IsPossibleFn keeps *)
RECURSIVE Filter(_, _, _, _)
Filter(sup, a, b, d) ==
    IF sup = <<>> THEN <<>>
    ELSE (IF IsPossibleFn(Head(sup), a, b, d) THEN <<Head(sup)>> ELSE <<>>)
         \o Filter(Tail(sup), a, b, d)

(* A GetPossibleModules that filters the whole catalog *)
GetPossibleModules_FromCatalog(a, b, d) ==
    Filter([m \in 1..Len(Input) |-> m], a, b, d)

(* A GetPossibleModules that passes the two slots in the wrong order *)
GetPossibleModules_Swapped(a, b, d) == Filter(Superposition(b), b, a, d)

GetPossibleModules(a, b, d) == Filter(Superposition(b), a, b, d)

(* An assignment that is skipped when the filtered list is empty *)
SetSuperposition_UnlessEmpty(n, s) ==
    IF s = <<>> THEN PossibilitySpace
    ELSE [PossibilitySpace EXCEPT ![n].Superposition = s]

(* next.Superposition = s *)
SetSuperposition(n, s) ==
    [PossibilitySpace EXCEPT ![n].Superposition = s]

(* A draw loop that also skips slots of two modules *)
Skipped_AtMostTwo(s) == Entropy(s) <= 2

(* A draw loop that skips only empty slots *)
Skipped_OnlyEmpty(s) == Entropy(s) <= 0

(* CollapseRandomSlot, line 142: a drawn slot is skipped when its
   superposition has at most one module *)
Skipped(s) == Entropy(s) <= 1

(* An error test that takes success for an error and an error for success *)
Failed_Inverted(r) == r = NoError

(* An error test that never sees an error *)
Failed_Never(r) == FALSE

(* err != nil *)
Failed(r) == r # NoError

(* Slot.Collapse: the superposition becomes the one module at index r *)
SlotCollapse(s, r) ==
    [PossibilitySpace EXCEPT ![s].Superposition = <<Superposition(s)[r]>>]

----------------------------------------------------------------------------
(* Activations of Recurse *)

Frame(p, prev, dir) == [pc |-> p, previous |-> prev, d |-> dir]

Top == stack[Len(stack)]

Pop(seq) == SubSeq(seq, 1, Len(seq) - 1)

SetTop(f) == [stack EXCEPT ![Len(stack)] = f]

----------------------------------------------------------------------------
(* Initial state: the Wave as NewWithCustomConstraints returns it *)

Init ==
    /\ Width \in 1..MaxWidth
    /\ Height \in 1..MaxHeight
    /\ Input \in UNION {CatalogsOfSize(n) : n \in 1..MaxModules}
    /\ PossibilitySpace = <<>>
    /\ History = <<>>
    /\ pc = "new"
    /\ attempts = 0
    /\ i = 0
    /\ stack = <<>>
    /\ ret = None
    /\ results = <<>>
    /\ drawn = Nil
    /\ probe = [op |-> "none"]
    /\ openAtStart = 0

(* Initialize(seed) *)
DoInitialize ==
    /\ pc = "new"
    /\ PossibilitySpace' = Initialize
    /\ pc' = "idle"
    /\ UNCHANGED <<Width, Height, Input, History, attempts, i, stack, ret,
                   results, drawn, probe,
                   openAtStart>>

(* Collapse(K) is called *)
CollapseCall ==
    /\ pc = "idle"
    /\ Len(results) < MaxCalls
    /\ \E K \in 0..MaxAttempts : attempts' = K
    /\ i' = 0
    /\ pc' = "for"
    /\ UNCHANGED <<Width, Height, Input, PossibilitySpace, History, stack,
                   ret, results, drawn, probe,
                   openAtStart>>

(* Collapse, line 111-112: the loop test; calls Recurse or returns nil *)
CollapseLoop ==
    /\ pc = "for"
    /\ IF i < attempts
       THEN /\ stack' = <<Frame("enter", Nil, 1)>>
            /\ pc' = "recurse"
            /\ openAtStart' = NumSlots - NumCollapsed
            /\ UNCHANGED results
       ELSE /\ results' = Append(results, NoError)
            /\ pc' = "idle"
            /\ UNCHANGED <<stack, openAtStart>>
    /\ UNCHANGED <<Width, Height, Input, PossibilitySpace, History, attempts,
                   i, ret, drawn, probe>>

(* Collapse, lines 113-116: Recurse has returned *)
CollapseAfterRecurse ==
    /\ pc = "recurse"
    /\ stack = <<>>
    /\ ret # None
    /\ IF Failed(ret)
       THEN /\ results' = Append(results, ret)
            /\ pc' = "idle"
            /\ UNCHANGED <<History, i>>
       ELSE /\ History' = <<>>
            /\ i' = i + 1
            /\ pc' = "for"
            /\ UNCHANGED results
    /\ ret' = None
    /\ openAtStart' = 0
    /\ UNCHANGED <<Width, Height, Input, PossibilitySpace, attempts, stack,
                   drawn, probe>>

(* Recurse, lines 154-164: the IsCollapsed test, the choice of a starting
   point when the history is empty, and previous := last of the history.
   CollapseRandomSlot returns nil when every slot is collapsed; otherwise
   it enters its draw loop. *)
RecurseEnter ==
    /\ stack # <<>>
    /\ Top.pc = "enter"
    /\ ret = None
    /\ IF IsCollapsed
       THEN /\ stack' = Pop(stack)
            /\ ret' = NoError
            /\ UNCHANGED History
       ELSE IF Len(History) = 0
       THEN IF NumCollapsed = NumSlots
            THEN /\ History' = Append(History, Nil)
                 /\ stack' = SetTop(Frame("loop", Nil, 1))
                 /\ UNCHANGED ret
            ELSE /\ stack' = SetTop(Frame("pick", Nil, 1))
                 /\ UNCHANGED <<History, ret>>
       ELSE /\ stack' = SetTop(Frame("loop", History[Len(History)], 1))
            /\ UNCHANGED <<History, ret>>
    /\ UNCHANGED <<Width, Height, Input, PossibilitySpace, pc, attempts, i,
                   results, drawn, probe,
                   openAtStart>>

(* CollapseRandomSlot, lines 139-144: a draw that hits a slot with
   entropy <= 1; the loop continues *)
DrawReject ==
    /\ stack # <<>>
    /\ Top.pc = "pick"
    /\ \E k \in 0..(NumSlots - 1) :
        /\ Skipped(SlotAt(k))
        /\ drawn' = k
    /\ UNCHANGED <<Width, Height, Input, PossibilitySpace, History, pc,
                   attempts, i, stack, ret, results, probe,
                   openAtStart>>

(* CollapseRandomSlot, lines 140-148, and Recurse, lines 161-164: a draw
   that hits an uncollapsed slot; the slot is collapsed to one of its
   modules and becomes the first history entry *)
DrawCollapse ==
    /\ stack # <<>>
    /\ Top.pc = "pick"
    /\ \E k \in 0..(NumSlots - 1) :
        /\ ~Skipped(SlotAt(k))
        /\ \E r \in 1..Entropy(SlotAt(k)) :
            PossibilitySpace' = SlotCollapse(SlotAt(k), r)
        /\ History' = Append(History, SlotAt(k))
        /\ stack' = SetTop(Frame("loop", SlotAt(k), 1))
    /\ drawn' = Nil
    /\ UNCHANGED <<Width, Height, Input, pc, attempts, i, ret, results, probe,
                   openAtStart>>

(* Recurse, lines 165-191: one iteration of the loop over the directions *)
RecurseStep ==
    /\ stack # <<>>
    /\ Top.pc = "loop"
    /\ Top.d <= Len(Directions)
    /\ ret = None
    /\ LET previous == Top.previous
           d == Directions[Top.d]
           continue == /\ stack' = SetTop(Frame("loop", previous, Top.d + 1))
                       /\ UNCHANGED <<PossibilitySpace, History, ret, pc>>
       IN  IF previous = Nil
           THEN /\ pc' = "panic"
                /\ UNCHANGED <<PossibilitySpace, History, ret, stack>>
           ELSE IF ~HasNeighbor(previous, d)
           THEN continue
           ELSE LET next == GetNeighbor(previous, d) IN
                IF HasVisited(next)
                THEN continue
                ELSE LET s == GetPossibleModules(previous, next, d) IN
                     IF Len(s) = Entropy(next)
                     THEN continue
                     ELSE /\ PossibilitySpace' = SetSuperposition(next, s)
                          /\ IF Len(s) = 0
                             THEN /\ stack' = Pop(stack)
                                  /\ ret' = ErrNoSolution
                                  /\ UNCHANGED History
                             ELSE /\ History' = Append(History, next)
                                  /\ stack' =
                                        Append(SetTop(Frame("call", previous,
                                                            Top.d)),
                                               Frame("enter", Nil, 1))
                                  /\ UNCHANGED ret
                          /\ UNCHANGED pc
    /\ UNCHANGED <<Width, Height, Input, attempts, i, results, drawn, probe,
                   openAtStart>>

(* Recurse, lines 192-195: the nested Recurse has returned *)
RecurseAfterCall ==
    /\ stack # <<>>
    /\ Top.pc = "call"
    /\ ret # None
    /\ IF Failed(ret)
       THEN /\ stack' = Pop(stack)
            /\ UNCHANGED <<History, ret>>
       ELSE /\ History' = Pop(History)
            /\ stack' = SetTop(Frame("loop", Top.previous, Top.d + 1))
            /\ ret' = None
    /\ UNCHANGED <<Width, Height, Input, PossibilitySpace, pc, attempts, i,
                   results, drawn, probe,
                   openAtStart>>

(* Recurse, line 198: the loop is over *)
RecurseReturn ==
    /\ stack # <<>>
    /\ Top.pc = "loop"
    /\ Top.d > Len(Directions)
    /\ ret = None
    /\ stack' = Pop(stack)
    /\ ret' = NoError
    /\ UNCHANGED <<Width, Height, Input, PossibilitySpace, History, pc,
                   attempts, i, results, drawn, probe,
                   openAtStart>>

Next ==
    \/ DoInitialize
    \/ CollapseCall
    \/ CollapseLoop
    \/ CollapseAfterRecurse
    \/ RecurseEnter
    \/ DrawReject
    \/ DrawCollapse
    \/ RecurseStep
    \/ RecurseAfterCall
    \/ RecurseReturn

Spec == Init /\ [][Next]_vars

----------------------------------------------------------------------------
(* A catalog of three modules over three constraint ids per axis, on which
   propagation stops before the grid is consistent *)

Module4(l, r, u, d) ==
    [Adjacencies |-> [dir \in DirSet |->
        CASE dir = Left -> l [] dir = Right -> r
          [] dir = Up -> u [] dir = Down -> d]]

ThreeIdCatalog ==
    <<Module4(1, 1, 1, 0), Module4(0, 0, 0, 2), Module4(2, 1, 0, 2)>>

InitThreeId ==
    /\ Width \in 1..MaxWidth
    /\ Height \in 1..MaxHeight
    /\ Input = ThreeIdCatalog
    /\ PossibilitySpace = <<>>
    /\ History = <<>>
    /\ pc = "new"
    /\ attempts = 0
    /\ i = 0
    /\ stack = <<>>
    /\ ret = None
    /\ results = <<>>
    /\ drawn = Nil
    /\ probe = [op |-> "none"]
    /\ openAtStart = 0

ThreeIdSpec == InitThreeId /\ [][Next]_vars

----------------------------------------------------------------------------
(* Inspection of a grid: GetSlot, HasNeighbor and GetNeighbor applied to
   the grid Initialize built, for grids up to MaxGrid x MaxGrid *)

InitGrid ==
    /\ Width \in 1..MaxGrid
    /\ Height \in 1..MaxGrid
    /\ Input \in CatalogsOfSize(1)
    /\ PossibilitySpace = <<>>
    /\ History = <<>>
    /\ pc = "new"
    /\ attempts = 0
    /\ i = 0
    /\ stack = <<>>
    /\ ret = None
    /\ results = <<>>
    /\ drawn = Nil
    /\ probe = [op |-> "none"]
    /\ openAtStart = 0

frame == <<Width, Height, Input, PossibilitySpace, History, pc, attempts, i,
           stack, ret, results, drawn, openAtStart>>

ProbeGetSlot ==
    /\ pc = "idle"
    /\ \E x \in 0..(Width - 1), y \in 0..(Height - 1) :
        probe' = [op |-> "GetSlot", x |-> x, y |-> y, res |-> GetSlot(x, y)]
    /\ UNCHANGED frame

ProbeHasNeighbor ==
    /\ pc = "idle"
    /\ \E s \in SlotIds, d \in DirSet :
        probe' = [op |-> "HasNeighbor", s |-> s, d |-> d,
                  res |-> HasNeighbor(s, d)]
    /\ UNCHANGED frame

ProbeGetNeighbor ==
    /\ pc = "idle"
    /\ \E s \in SlotIds, d \in DirSet :
        /\ HasNeighbor(s, d)
        /\ probe' = [op |-> "GetNeighbor", s |-> s, d |-> d,
                     res |-> GetNeighbor(s, d)]
    /\ UNCHANGED frame

NextGrid ==
    \/ DoInitialize
    \/ ProbeGetSlot
    \/ ProbeHasNeighbor
    \/ ProbeGetNeighbor

GridSpec == InitGrid /\ [][NextGrid]_vars

----------------------------------------------------------------------------
(* Shared vocabulary of the properties *)

Idle == pc = "idle"

AllSucceeded == \A k \in 1..Len(results) : results[k] = NoError

(* n is the slot one step in direction d from s, inside the grid *)
StepFrom(s, d, n) ==
    LET x == PossibilitySpace[s].X
        y == PossibilitySpace[s].Y
        nx == PossibilitySpace[n].X
        ny == PossibilitySpace[n].Y
    IN  CASE d = Up -> nx = x /\ ny = y - 1
          [] d = Down -> nx = x /\ ny = y + 1
          [] d = Left -> nx = x - 1 /\ ny = y
          [] d = Right -> nx = x + 1 /\ ny = y

(* C1: a grid that Collapse calls, all successful, have fully collapsed to
   one module per slot has no two adjacent slots whose modules violate the
   adjacency constraint *)
C1_NoAdjacentViolation ==
    (/\ Idle
     /\ results # <<>>
     /\ AllSucceeded
     /\ \A s \in SlotIds : Entropy(s) = 1)
    => \A s \in SlotIds, n \in SlotIds, d \in DirSet :
          StepFrom(s, d, n) => IsPossibleFn(Superposition(n)[1], s, n, d)

LastResult == results[Len(results)]

Elems(seq) == {seq[k] : k \in 1..Len(seq)}

(* C2: a contradiction error does nothing but unwind: while the error is
   being returned each step pops one activation of Recurse and changes no
   slot, no history entry and no attempt counter, and from the outermost
   activation Collapse returns it at once without starting another attempt;
   the step that empties a superposition is the step that raises the error *)
C2_ContradictionAborts ==
    /\ [](ret = ErrNoSolution =>
            /\ pc = "recurse"
            /\ stack # <<>> => Top.pc = "call")
    /\ [][/\ (\E n \in SlotIds : Entropy(n) > 0 /\ Entropy(n)' = 0)
             => ret' = ErrNoSolution
          /\ ret = ErrNoSolution =>
                /\ UNCHANGED <<PossibilitySpace, History, i, attempts>>
                /\ IF stack # <<>>
                   THEN /\ stack' = Pop(stack)
                        /\ ret' = ErrNoSolution
                        /\ UNCHANGED <<pc, results>>
                   ELSE /\ results' = Append(results, ErrNoSolution)
                        /\ pc' = "idle"]_vars

(* C2 witness: Collapse has returned the error from a nested propagation
   call while attempts were left to run *)
C2_Witness ==
    /\ Idle
    /\ results # <<>>
    /\ LastResult = ErrNoSolution
    /\ Len(History) >= 2
    /\ i + 1 < attempts

(* C3: the step that raises the contradiction leaves exactly the filtered
   neighbour changed, and empty; until Collapse has returned the error no
   superposition changes, so the neighbour is still empty when it returns *)
C3_ContradictionLeavesGrid ==
    /\ []((Idle /\ results # <<>> /\ LastResult = ErrNoSolution)
            => \E n \in SlotIds : Entropy(n) = 0)
    /\ [][/\ (ret # ErrNoSolution /\ ret' = ErrNoSolution) =>
                \E n \in SlotIds :
                    /\ Entropy(n) > 0
                    /\ Entropy(n)' = 0
                    /\ n = GetNeighbor(Top.previous, Directions[Top.d])
                    /\ \A t \in SlotIds \ {n} :
                          PossibilitySpace'[t] = PossibilitySpace[t]
          /\ ret = ErrNoSolution => PossibilitySpace' = PossibilitySpace]_vars

(* C3 witness: Collapse has returned the error, a slot is empty and other
   slots had been narrowed before the failure *)
C3_Witness ==
    /\ Idle
    /\ results # <<>>
    /\ LastResult = ErrNoSolution
    /\ \E n \in SlotIds : Entropy(n) = 0
    /\ \E t \in SlotIds : Entropy(t) > 1 /\ Entropy(t) < Len(Input)

(* C4: no step after Initialize adds a module to a superposition: the new
   superposition of every slot is drawn from the old one and is no longer *)
C4_MonotonicShrink ==
    [][\A s \in SlotIds :
          /\ Elems(Superposition(s)') \subseteq Elems(Superposition(s))
          /\ Entropy(s)' <= Entropy(s)]_vars

(* C4 witness: propagation in progress in a second attempt, a slot having
   been narrowed to two of the three modules and another to one *)
C4_Witness ==
    /\ i >= 1
    /\ Len(Input) = 3
    /\ stack # <<>>
    /\ Top.pc = "call"
    /\ \E s \in SlotIds : Entropy(s) = 2
    /\ \E s \in SlotIds : Entropy(s) = 1

MaxSmallModules == 2

(* Catalogs of at most MaxSmallModules modules, and fair scheduling: the code is
   sequential, so it keeps taking steps (WF of Next), and the draw of
   CollapseRandomSlot is fair, so a slot that can be collapsed is eventually
   drawn (WF of DrawCollapse, which is enabled for as long as the draw loop
   runs) *)
InitSmall ==
    /\ Width \in 1..MaxWidth
    /\ Height \in 1..MaxHeight
    /\ Input \in UNION {CatalogsOfSize(n) : n \in 1..MaxSmallModules}
    /\ PossibilitySpace = <<>>
    /\ History = <<>>
    /\ pc = "new"
    /\ attempts = 0
    /\ i = 0
    /\ stack = <<>>
    /\ ret = None
    /\ results = <<>>
    /\ drawn = Nil
    /\ probe = [op |-> "none"]
    /\ openAtStart = 0

FairSmallSpec ==
    InitSmall /\ [][Next]_vars /\ WF_vars(Next) /\ WF_vars(DrawCollapse)

(* C5: every call of Recurse that Collapse makes returns *)
C5_AttemptTerminates == (pc = "recurse") ~> (pc \in {"for", "idle"})

(* C5 witness: on a grid of at least three slots the second attempt of a
   call, whose draw loop had collapsed slots to reject, has returned success *)
C5_Witness ==
    /\ pc = "recurse"
    /\ stack = <<>>
    /\ ret = NoError
    /\ i >= 1
    /\ NumSlots >= 3

(* C6: the step in which CollapseRandomSlot returns a slot picks a slot of
   more than one module, leaves it with one module that it held before,
   changes no other slot and makes it the first history entry; a rejected
   draw changes no slot *)
C6_CollapseRandomSlot ==
    [][(stack # <<>> /\ Top.pc = "pick") =>
          IF History' = History
          THEN PossibilitySpace' = PossibilitySpace
          ELSE \E s \in SlotIds :
                  /\ Entropy(s) > 1
                  /\ Entropy(s)' = 1
                  /\ Superposition(s)'[1] \in Elems(Superposition(s))
                  /\ History' = Append(History, s)
                  /\ \A t \in SlotIds \ {s} :
                        PossibilitySpace'[t] = PossibilitySpace[t]]_vars

(* C6 witness: in a second attempt a slot that propagation had narrowed to
   two of three modules has just been picked and collapsed *)
C6_Witness ==
    /\ i >= 1
    /\ Len(Input) = 3
    /\ Len(stack) = 1
    /\ Top.pc = "loop"
    /\ Top.d = 1
    /\ History = <<Top.previous>>
    /\ Superposition(Top.previous) \in {<<2>>, <<3>>}
    /\ \E t \in SlotIds : Entropy(t) = 2

(* C7: IsCollapsed is true exactly when no slot holds more than one module,
   and the step of Recurse that finds it true changes no slot and no
   history entry *)
C7_IsCollapsed ==
    /\ [](IsCollapsed <=> \A s \in SlotIds : Entropy(s) <= 1)
    /\ [][(stack # <<>> /\ Top.pc = "enter" /\ IsCollapsed)
            => UNCHANGED <<PossibilitySpace, History>>]_vars

(* C7 witness: IsCollapsed holds of a grid with a slot in the contradiction
   state *)
C7_Witness ==
    /\ pc = "idle"
    /\ IsCollapsed
    /\ \E s \in SlotIds : Entropy(s) = 0
    /\ \E s \in SlotIds : Entropy(s) = 1

NeighborCount(s) == Cardinality({d \in DirSet : HasNeighbor(s, d)})

OnColumnEdge(s) == PossibilitySpace[s].X \in {0, Width - 1}

OnRowEdge(s) == PossibilitySpace[s].Y \in {0, Height - 1}

ExpectedNeighbors(s) ==
    IF OnColumnEdge(s) /\ OnRowEdge(s) THEN 2
    ELSE IF OnColumnEdge(s) \/ OnRowEdge(s) THEN 3
    ELSE 4

(* C8 as stated: in every grid a corner slot has 2 neighbours, an edge slot
   3 and an interior slot 4 *)
C8_NeighborCountAnyGrid ==
    \A s \in SlotIds : NeighborCount(s) = ExpectedNeighbors(s)

(* C8 amended: in every grid at least two slots wide and two slots high a
   corner slot has 2 neighbours, an edge slot 3 and an interior slot 4 *)
C8_NeighborCount ==
    (Width >= 2 /\ Height >= 2)
    => \A s \in SlotIds : NeighborCount(s) = ExpectedNeighbors(s)

(* C8 witness: HasNeighbor answered true for an interior slot of a grid
   that also has corner and edge slots *)
C8_Witness ==
    /\ probe.op = "HasNeighbor"
    /\ probe.res
    /\ ~OnColumnEdge(probe.s)
    /\ ~OnRowEdge(probe.s)
    /\ NeighborCount(probe.s) = 4

(* C9: GetSlot(x, y) is the slot that stores (x, y); where HasNeighbor
   holds GetNeighbor is the slot one step away inside the grid; and a
   propagation step changes, and pushes, only such a neighbour of the slot
   it propagates from *)
C9_HardEdges ==
    /\ [](pc # "new" =>
            /\ \A x \in 0..(Width - 1), y \in 0..(Height - 1) :
                  /\ GetSlot(x, y) \in SlotIds
                  /\ PossibilitySpace[GetSlot(x, y)].X = x
                  /\ PossibilitySpace[GetSlot(x, y)].Y = y
            /\ \A s \in SlotIds, d \in DirSet :
                  HasNeighbor(s, d) =>
                      /\ GetNeighbor(s, d) \in SlotIds
                      /\ StepFrom(s, d, GetNeighbor(s, d)))
    /\ [][(stack # <<>> /\ Top.pc = "loop") =>
            /\ \A n \in SlotIds :
                  PossibilitySpace'[n] # PossibilitySpace[n] =>
                      \E d \in DirSet : StepFrom(Top.previous, d, n)
            /\ Len(History') > Len(History) =>
                  \E d \in DirSet :
                      StepFrom(Top.previous, d, History'[Len(History')])]_vars

(* C9 witness: on a 2 x 2 grid propagation from the slot at the end of the
   first row has narrowed the slot below it and is propagating from there;
   the first slot of the second row, next in the array, is untouched *)
C9_Witness ==
    /\ Width = 2
    /\ Height = 2
    /\ History = <<GetSlot(1, 0), GetSlot(1, 1)>>
    /\ Entropy(GetSlot(1, 1)) < Len(Input)
    /\ Entropy(GetSlot(0, 1)) = Len(Input)

(* Module a only fits beside itself, and so does module b *)
OnlySelfCompatible(a, b) ==
    /\ Input[a].Adjacencies[Right] = Input[a].Adjacencies[Left]
    /\ Input[b].Adjacencies[Right] = Input[b].Adjacencies[Left]
    /\ Input[a].Adjacencies[Right] # Input[b].Adjacencies[Left]
    /\ Input[b].Adjacencies[Right] # Input[a].Adjacencies[Left]

(* C10: on a 2 x 1 grid with two modules that each fit only beside
   themselves, a Collapse call of at least one attempt that returns success
   leaves both cells with the same single module *)
C10_ScenarioB ==
    (/\ Width = 2
     /\ Height = 1
     /\ Len(Input) = 2
     /\ OnlySelfCompatible(1, 2)
     /\ Idle
     /\ results # <<>>
     /\ LastResult = NoError
     /\ attempts >= 1)
    => /\ Entropy(1) = 1
       /\ Entropy(2) = 1
       /\ Superposition(1) = Superposition(2)

(* C10 witness: such a run has ended with both cells holding the second
   module *)
C10_Witness ==
    /\ Width = 2
    /\ Height = 1
    /\ Len(Input) = 2
    /\ OnlySelfCompatible(1, 2)
    /\ Idle
    /\ results = <<NoError>>
    /\ attempts >= 1
    /\ Superposition(1) = <<2>>
    /\ Superposition(2) = <<2>>

(* sup lists modules of the catalog, each at most once, in catalog order *)
IsCatalogSublist(sup) ==
    /\ \A k \in 1..Len(sup) : sup[k] \in 1..Len(Input)
    /\ \A j, k \in 1..Len(sup) : j < k => sup[j] < sup[k]

(* C11: after Initialize every superposition is a duplicate-free,
   order-preserving sublist of the Wave's own catalog, and Initialize itself
   leaves Width * Height slots that each hold the full catalog *)
C11_SuperpositionIsCatalogSublist ==
    /\ [](\A s \in SlotIds : IsCatalogSublist(Superposition(s)))
    /\ [][pc = "new" =>
            /\ NumSlots' = Width * Height
            /\ \A s \in SlotIds' :
                  Superposition(s)' = [m \in 1..Len(Input) |-> m]]_vars

(* C11 witness: propagation has narrowed a slot to the first and the third
   module of a three-module catalog *)
C11_Witness ==
    /\ Len(Input) = 3
    /\ \E s \in SlotIds : Superposition(s) = <<1, 3>>

(* Slots that hold more than one module *)
NumOpen == NumSlots - NumCollapsed

AttemptSucceeded == pc = "recurse" /\ stack = <<>> /\ ret = NoError

(* C12: attempts are cumulative and make progress: Collapse changes no slot
   between attempts; a successful attempt that began with open slots ends
   with fewer of them; a slot that holds one module keeps it or becomes
   empty; and a first Collapse(K) with K >= Width * Height that returns
   success leaves the grid collapsed *)
C12_CumulativeProgress ==
    /\ []((Idle /\ results = <<NoError>> /\ attempts >= NumSlots)
            => IsCollapsed)
    /\ [][/\ (pc = "for" \/ (pc = "recurse" /\ stack = <<>>))
                => UNCHANGED PossibilitySpace
          /\ (AttemptSucceeded /\ openAtStart > 0) => NumOpen < openAtStart
          /\ \A s \in SlotIds :
                Entropy(s) = 1 => \/ Superposition(s)' = Superposition(s)
                                  \/ Entropy(s)' = 0]_vars

(* No propagation step from any slot would remove a module from a neighbour *)
FullyPropagated ==
    \A s \in SlotIds, n \in SlotIds, d \in DirSet :
        StepFrom(s, d, n) =>
            \A k \in 1..Entropy(n) : IsPossibleFn(Superposition(n)[k], s, n, d)

(* C13: when an attempt has completed successfully, every module still in
   a slot's superposition is possible with respect to each of the slot's
   4-neighbours; stated for the first attempt on a freshly initialized
   grid, where no earlier attempt or failed call has left anything behind *)
C13_FullyPropagated ==
    (AttemptSucceeded /\ results = <<>> /\ i = 0) => FullyPropagated

(* C14: a propagation step from the current slot c to an existing neighbour
   n that is not on the history computes the modules of n's superposition,
   in order, that IsPossibleFn keeps; when none is dropped n, the history
   and the depth of the recursion stay as they are; otherwise the kept list
   becomes n's superposition; no other slot changes *)
C14_PropagationStep ==
    [][(/\ stack # <<>>
        /\ Top.pc = "loop"
        /\ Top.d <= Len(Directions)
        /\ Top.previous \in SlotIds
        /\ HasNeighbor(Top.previous, Directions[Top.d])
        /\ ~HasVisited(GetNeighbor(Top.previous, Directions[Top.d])))
       => LET c == Top.previous
              d == Directions[Top.d]
              n == GetNeighbor(c, d)
              sub == SelectSeq(Superposition(n),
                               LAMBDA m : IsPossibleFn(m, c, n, d))
          IN  /\ GetPossibleModules(c, n, d) = sub
              /\ \A t \in SlotIds \ {n} :
                    PossibilitySpace'[t] = PossibilitySpace[t]
              /\ IF Len(sub) = Entropy(n)
                 THEN /\ sub = Superposition(n)
                      /\ UNCHANGED <<PossibilitySpace, History>>
                      /\ Len(stack') = Len(stack)
                 ELSE PossibilitySpace'[n].Superposition = sub]_vars

(* C14 witness: a step has dropped the second of three modules from a
   neighbour, installed the remaining two and recursed into it *)
C14_Witness ==
    /\ Len(stack) >= 2
    /\ Top.pc = "enter"
    /\ History # <<>>
    /\ Entropy(stack[Len(stack) - 1].previous) >= 2
    /\ Superposition(History[Len(History)]) = <<1, 3>>

(* C15: the history is empty whenever an attempt starts and whenever
   Collapse has returned *)
C15_HistoryEmptyAtAttemptStart ==
    ((pc = "for" /\ i < attempts) \/ (Idle /\ results # <<>>))
    => History = <<>>

(* C16: the history never holds a slot twice, each entry after the first is
   a 4-neighbour of the entry before it, it is never longer than the grid
   has slots, and no step changes a slot that is on the history and stays
   on it *)
C16_HistoryIsSimplePath ==
    /\ [](/\ \A j, k \in 1..Len(History) : j < k => History[j] # History[k]
          /\ \A k \in 2..Len(History) :
                \E d \in DirSet : StepFrom(History[k - 1], d, History[k])
          /\ Len(History) <= Width * Height)
    /\ [][\A k \in 1..Len(History) :
            (k <= Len(History') /\ History'[k] = History[k])
            => PossibilitySpace'[History[k]] = PossibilitySpace[History[k]]]_vars

(* C16 witness: on a 2 x 2 grid the recursion has walked through all four
   slots and is propagating from the last one, next to the first *)
C16_Witness ==
    /\ NumSlots = 4
    /\ Len(History) = NumSlots
    /\ stack # <<>>
    /\ Top.pc = "loop"
    /\ Top.previous = History[Len(History)]
    /\ \E d \in DirSet : StepFrom(Top.previous, d, History[1])

(* A nested call that has returned success leaves its slot on the history
   until the caller pops it *)
Pending == IF ret = NoError THEN 1 ELSE 0

(* The history entry of the k-th activation of Recurse, counted from the
   end of the history *)
HistoryIndex(k) == Len(History) - Pending - (Len(stack) - k)

(* C17: pushes and pops of the history are balanced: the slot a returning
   nested call leaves on top is the neighbour its caller pushed, the caller
   pops exactly it and is again at its own slot; every activation keeps its
   slot, and its slot stays at its place on the history, so the history
   below a pushed neighbour is the same when the call returns; the slot
   being processed is the last entry; and when a successful attempt
   finishes the history holds at most the one slot that was collapsed *)
C17_BalancedHistory ==
    /\ [](ret # ErrNoSolution =>
            \A k \in 1..Len(stack) :
                stack[k].pc \in {"loop", "call"} =>
                    /\ HistoryIndex(k) \in 1..Len(History)
                    /\ History[HistoryIndex(k)] = stack[k].previous)
    /\ []((stack # <<>> /\ Top.pc = "loop")
            => Top.previous = History[Len(History)])
    /\ [](AttemptSucceeded =>
            /\ Len(History) <= 1
            /\ \A k \in 1..Len(History) : Entropy(History[k]) = 1)
    /\ [][/\ (stack # <<>> /\ Top.pc = "call" /\ ret = NoError) =>
                /\ History[Len(History)]
                      = GetNeighbor(Top.previous, Directions[Top.d])
                /\ History' = Pop(History)
                /\ History'[Len(History')] = Top.previous
          /\ \A k \in 1..Len(stack) :
                (k <= Len(stack') /\ stack[k].pc \in {"loop", "call"})
                => stack'[k].previous = stack[k].previous]_vars

(* C18: starting an attempt changes no slot and no history entry; an
   attempt that starts with no slot of more than one module returns success
   in its first step, with every slot and the history as they were; and
   Collapse(0) returns success with every slot and the history as they were *)
C18_NoOpAttempt ==
    [][/\ (pc = "for" /\ i < attempts)
            => UNCHANGED <<PossibilitySpace, History>>
       /\ (/\ pc = "recurse"
           /\ Len(stack) = 1
           /\ Top.pc = "enter"
           /\ \A s \in SlotIds : Entropy(s) <= 1)
          => /\ stack' = <<>>
             /\ ret' = NoError
             /\ UNCHANGED <<PossibilitySpace, History>>
       /\ (pc = "for" /\ attempts = 0)
          => /\ results' = Append(results, NoError)
             /\ pc' = "idle"
             /\ UNCHANGED <<PossibilitySpace, History>>]_vars

(* C18 witness: a second attempt that began on a grid of at least two slots,
   each holding one module, has returned success *)
C18_Witness ==
    /\ AttemptSucceeded
    /\ openAtStart = 0
    /\ i >= 1
    /\ NumSlots >= 2
    /\ \A s \in SlotIds : Entropy(s) = 1

HasEmptySlot == \E s \in SlotIds : Entropy(s) = 0

SomeCallFailed == \E k \in 1..Len(results) : results[k] = ErrNoSolution

(* C19 as stated: whenever a Collapse call has returned success, no slot
   has an empty superposition *)
C19_SuccessMeansNoEmptySlot ==
    (Idle /\ results # <<>> /\ LastResult = NoError) => ~HasEmptySlot

(* C19 amended: a slot has an empty superposition only if the running
   Collapse call is returning the contradiction error or an earlier call
   has returned it; so when every Collapse call so far has returned
   success no slot is empty *)
C19_EmptyOnlyAfterError ==
    /\ HasEmptySlot => (ret = ErrNoSolution \/ SomeCallFailed)
    /\ (Idle /\ AllSucceeded) => ~HasEmptySlot

(* C19 witness: a Collapse call made after a failed one has returned
   success and the slot the failed call emptied is still empty *)
C19_Witness ==
    /\ Idle
    /\ results = <<ErrNoSolution, NoError>>
    /\ attempts >= 1
    /\ HasEmptySlot

(* C20: the nil that CollapseRandomSlot returns for a collapsed grid is
   never used as a slot: when Recurse calls CollapseRandomSlot some slot
   holds more than one module and the draw loop is entered; every history
   entry and every activation's current slot is a slot of the grid *)
C20_SentinelNeverUsed ==
    /\ [](/\ pc # "panic"
          /\ \A k \in 1..Len(History) : History[k] \in SlotIds
          /\ \A k \in 1..Len(stack) :
                stack[k].pc \in {"loop", "call"}
                => stack[k].previous \in SlotIds
          /\ (stack # <<>> /\ Top.pc = "pick")
                => \E s \in SlotIds : Entropy(s) > 1)
    /\ [][(stack # <<>> /\ Top.pc = "enter" /\ ~IsCollapsed
                        /\ Len(History) = 0)
            => /\ \E s \in SlotIds : Entropy(s) > 1
               /\ NumCollapsed < NumSlots
               /\ stack'[Len(stack')].pc = "pick"]_vars

(* C20 witness: in a later attempt Recurse has called CollapseRandomSlot on
   a grid where all slots but one hold one module, and a draw has just hit
   one of those *)
C20_Witness ==
    /\ stack # <<>>
    /\ Top.pc = "pick"
    /\ i >= 1
    /\ NumSlots >= 3
    /\ NumCollapsed = NumSlots - 1
    /\ drawn # Nil

====
